---- MODULE Spec2Model ----
(***************************************************************************)
(* Model of order.py: an interactive curses tool that reorders a list of   *)
(* file names (cursor navigation, swap-moves, pick-up/drop relocation),    *)
(* renames single entries, strips a pattern from all entries and, on exit, *)
(* optionally enumerates the entries with a numeric prefix.                *)
(*                                                                         *)
(* Python lists are modelled as sequences; Python indices are 0-based and  *)
(* are kept 0-based in the variables (At(s, i) reads s[i]).  Strings are   *)
(* sequences of one-character strings.  Python's None is the empty option  *)
(* <<>>, a present value v is <<v>>.                                       *)
(***************************************************************************)
EXTENDS Integers, Sequences, FiniteSets, TLC

\* ---------------------------------------------------------------- bounds
\* longest list handed to the reorder operations
MaxItems == 3
\* longest argument list of a whole session
MaxArgs == 2
\* longest edit buffer an insert may produce
MaxBuf == 3
\* longest default value the line editor is opened with on its own
MaxDefault == 2
\* longest list the default pattern is computed and applied for
MaxCount == 12
\* number of editing keys typed into a prompt of the session before it resolves
MaxEdits == 1

\* ------------------------------------------------------- Python data model
None == <<>>
Some(v) == <<v>>
IsSome(o) == o # None
Val(o) == o[1]

Min(a, b) == IF a < b THEN a ELSE b
Max(a, b) == IF a > b THEN a ELSE b

\* s[i] with a 0-based index i
At(s, i) == s[i + 1]

\* list.pop(i) for 0 <= i < len(s): the list without its element i
Pop(s, i) == [k \in 1..(Len(s) - 1) |-> IF k <= i THEN s[k] ELSE s[k + 1]]

\* list.insert(i, x): a negative index counts from the end, and the index is
\* then clamped to [0, len(s)]
InsertIdx(s, i) == IF i < 0 THEN Max(0, Len(s) + i) ELSE Min(i, Len(s))
Insert(s, i, x) ==
    LET j == InsertIdx(s, i)
    IN [k \in 1..(Len(s) + 1) |->
            IF k <= j THEN s[k] ELSE IF k = j + 1 THEN x ELSE s[k - 1]]

\* mutant: the exchange done as a pop and an insert
SwapItemsRotate(s, i, j) == Insert(Pop(s, i), j, At(s, i))
\* mutant: the exchange done as two assignments, the second reading the
\* overwritten entry
SwapItemsOverwrite(s, i, j) ==
    [k \in 1..Len(s) |-> IF k = i + 1 THEN At(s, j) ELSE s[k]]

\* mutant: the exchange left out
SwapItemsNone(s, i, j) == s

\* the tuple assignment s[i], s[j] = s[j], s[i]
SwapItems(s, i, j) ==
    [k \in 1..Len(s) |-> IF k = i + 1 THEN At(s, j)
                         ELSE IF k = j + 1 THEN At(s, i) ELSE s[k]]

\* mutant: the cursor moved up without the wraparound
UpIdxNoWrap(fs, idx) == idx - 1

\* mutant: the cursor moved down without the wraparound
DownIdxNoWrap(fs, idx) == idx + 1

\* (current_idx - 1) % len(files) if files else 0
UpIdx(fs, idx) == IF Len(fs) > 0 THEN (idx - 1) % Len(fs) ELSE 0
\* (current_idx + 1) % len(files) if files else 0
DownIdx(fs, idx) == IF Len(fs) > 0 THEN (idx + 1) % Len(fs) ELSE 0

\* mutant: the anchor re-indexed without the clamp
AnchorAfterUpUnclamped(fs, sel, idx) ==
    IF IsSome(sel) /\ Val(sel) = idx THEN Some(Val(sel) + 1) ELSE sel

\* first_selection after K: min(first_selection+1, len(files)-1) when the new
\* cursor index equals it
AnchorAfterUp(fs, sel, idx) ==
    IF IsSome(sel) /\ Val(sel) = idx
    THEN Some(Min(Val(sel) + 1, Len(fs) - 1)) ELSE sel
\* first_selection after J: max(first_selection-1, 0) under the same test
AnchorAfterDown(fs, sel, idx) ==
    IF IsSome(sel) /\ Val(sel) = idx
    THEN Some(Max(Val(sel) - 1, 0)) ELSE sel

\* mutant: the insert index corrected for the popped entry
RelocateShifted(fs, from, to) ==
    Insert(Pop(fs, from), IF from < to THEN to - 1 ELSE to, At(fs, from))

\* files.pop(first_selection); files.insert(current_idx, selected_value)
Relocate(fs, from, to) == Insert(Pop(fs, from), to, At(fs, from))

\* mutant: a drop in place that does not clear the anchor
AnchorAfterSelectKept(sel, idx) ==
    IF sel = None THEN Some(idx) ELSE IF Val(sel) = idx THEN sel ELSE None

\* first_selection after Space/Enter in the main loop
AnchorAfterSelect(sel, idx) == IF sel = None THEN Some(idx) ELSE None

\* ------------------------------------------------------------------ state
VARIABLES
    files,            \* the list of names (argv[1:], reordered and renamed)
    current_idx,      \* the highlighted row
    first_selection,  \* the anchor: None or Some(index)
    message,          \* the status message the next draw shows
    pc,               \* where the program is
    key,              \* the key the last getch() returned (abstract class)
    old,              \* files/current_idx/first_selection before that key
    argv,             \* sys.argv[1:] as the program was started
    buffer,           \* prompt_user: the characters typed so far
    cursor_pos,       \* prompt_user: the cursor offset in buffer
    value,            \* prompt_user: what it returned, None or Some(string)
    pattern,          \* what main returned: None or Some(string)
    renames,          \* the os.rename calls made since the last key was read
    raised            \* the exception that ended the program: None or Some(name)

listVars == <<files, current_idx, first_selection, message, old, argv,
              pattern, renames>>
editVars == <<buffer, cursor_pos, value>>
vars == <<files, current_idx, first_selection, message, pc, key,
          old, argv, buffer, cursor_pos, value, pattern, renames, raised>>

\* the status line: message = "" and the three messages main produces
NoMessage == [kind |-> "none"]
RenamedMessage(old_name, new_name) ==
    [kind |-> "renamed", old_name |-> old_name, new_name |-> new_name]
ErrorMessage == [kind |-> "error"]
CountMessage(count) == [kind |-> "count", count |-> count]

\* the last key picked an item up: Space/Enter with first_selection None
PickedUp == pc = "Running" /\ key = "select" /\ IsSome(first_selection)

\* the list, the cursor and the anchor as a handler finds them, and whether
\* the key before was a pick-up
Snapshot ==
    [files |-> files, idx |-> current_idx, sel |-> first_selection,
     pick |-> PickedUp]

\* key = stdscr.getch() in the main loop, dispatched to the branch of k
Dispatch(k) ==
    /\ pc = "Running"
    /\ key' = k
    /\ old' = Snapshot
    /\ value' = None
    /\ UNCHANGED <<argv, buffer, cursor_pos, raised>>

\* names a^1, a^2, ...: pairwise distinct paths
RECURSIVE Rep(_, _)
Rep(c, n) == IF n = 0 THEN <<>> ELSE <<c>> \o Rep(c, n - 1)
NameOf(k) == Rep("a", k)

\* all lists of n pairwise distinct names out of NameOf(1..m)
DistinctLists(n, m) ==
    {s \in [1..n -> {NameOf(k) : k \in 1..m}] :
        \A i, j \in 1..n : i # j => s[i] # s[j]}

\* ------------------------------------------------- main loop: list handlers
\* KEY_UP / 'k'
MoveUp ==
    /\ Dispatch("up")
    /\ current_idx' = UpIdx(files, current_idx)
    /\ message' = NoMessage
    /\ renames' = <<>>
    /\ UNCHANGED <<files, first_selection, pc, pattern>>

\* KEY_DOWN / 'j'
MoveDown ==
    /\ Dispatch("down")
    /\ current_idx' = DownIdx(files, current_idx)
    /\ message' = NoMessage
    /\ renames' = <<>>
    /\ UNCHANGED <<files, first_selection, pc, pattern>>

\* Esc, Ctrl-C, Ctrl-G
Cancel ==
    /\ Dispatch("cancel")
    /\ first_selection' = None
    /\ message' = NoMessage
    /\ renames' = <<>>
    /\ UNCHANGED <<files, current_idx, pc, pattern>>

\* 'K'
SwapUp ==
    /\ Dispatch("K")
    /\ current_idx' = UpIdx(files, current_idx)
    /\ files' = SwapItems(files, current_idx, current_idx')
    /\ first_selection' = AnchorAfterUp(files', first_selection, current_idx')
    /\ message' = NoMessage
    /\ renames' = <<>>
    /\ UNCHANGED <<pc, pattern>>

\* 'J'
SwapDown ==
    /\ Dispatch("J")
    /\ current_idx' = DownIdx(files, current_idx)
    /\ files' = SwapItems(files, current_idx, current_idx')
    /\ first_selection' = AnchorAfterDown(files', first_selection, current_idx')
    /\ message' = NoMessage
    /\ renames' = <<>>
    /\ UNCHANGED <<pc, pattern>>

\* Space / Enter
Select ==
    /\ Dispatch("select")
    /\ files' = IF IsSome(first_selection) /\ Val(first_selection) # current_idx
                THEN Relocate(files, Val(first_selection), current_idx)
                ELSE files
    /\ first_selection' = AnchorAfterSelect(first_selection, current_idx)
    /\ message' = NoMessage
    /\ renames' = <<>>
    /\ UNCHANGED <<current_idx, pc, pattern>>

\* --------------------------------------- the list operations on their own
InitReorder ==
    /\ \E n \in 1..MaxItems : files \in DistinctLists(n, MaxItems)
    /\ current_idx = 0
    /\ first_selection = None
    /\ message = NoMessage
    /\ pc = "Running"
    /\ key = "none"
    /\ old = Snapshot
    /\ argv = files
    /\ buffer = <<>>
    /\ cursor_pos = 0
    /\ value = None
    /\ pattern = None
    /\ renames = <<>>
    /\ raised = None

NextReorder == MoveUp \/ MoveDown \/ Cancel \/ SwapUp \/ SwapDown \/ Select

SpecReorder == InitReorder /\ [][NextReorder]_vars

\* ------------------------------------------------------------ prompt_user
\* the characters a key press can insert (printable ASCII, 32..126)
Printable == {"a", " "}

\* str.strip(): leading and trailing whitespace removed
RECURSIVE LStrip(_)
LStrip(s) == IF s # <<>> /\ Head(s) = " " THEN LStrip(Tail(s)) ELSE s
RECURSIVE RStrip(_)
RStrip(s) ==
    IF s # <<>> /\ s[Len(s)] = " " THEN RStrip(SubSeq(s, 1, Len(s) - 1)) ELSE s
\* mutant: only the leading whitespace removed
StripLeftOnly(s) == LStrip(s)
Strip(s) == RStrip(LStrip(s))

\* Enter: value = "".join(buffer).strip(); return value if value else None
EnterValue(buf) == IF Strip(buf) # <<>> THEN Some(Strip(buf)) ELSE None

\* Ctrl-D: buffer.pop(cursor_pos) raises IndexError when cursor_pos is not
\* an index of a non-empty buffer (a negative index counts from the end)
CtrlDRaises(buf, pos) == Len(buf) > 0 /\ ~(-Len(buf) <= pos /\ pos < Len(buf))
CtrlDBuffer(buf, pos) ==
    IF Len(buf) > 0
    THEN Pop(buf, IF pos < 0 THEN Len(buf) + pos ELSE pos)
    ELSE buf

\* Ctrl-E: cursor_pos = len(buffer) - 1
CtrlEPos(buf) == Len(buf) - 1

\* Backspace: if cursor_pos > 0: buffer.pop(cursor_pos - 1); cursor_pos -= 1
BackspaceBuffer(buf, pos) == IF pos > 0 THEN Pop(buf, pos - 1) ELSE buf
BackspacePos(pos) == IF pos > 0 THEN pos - 1 ELSE pos

\* Left / Ctrl-B and Right / Ctrl-F
LeftPos(pos) == IF pos > 0 THEN pos - 1 ELSE pos
RightPos(buf, pos) == IF pos < Len(buf) THEN pos + 1 ELSE pos

\* one editing key applied to the editor state e = [buffer, cursor_pos, raised]
EditKeys == {"ctrl_a", "ctrl_d", "ctrl_e", "backspace", "left", "right",
             "other"} \cup Printable
EditStep(e, k) ==
    IF e.raised THEN e
    ELSE CASE k = "ctrl_a" -> [e EXCEPT !.cursor_pos = 0]
           [] k = "ctrl_d" ->
                IF CtrlDRaises(e.buffer, e.cursor_pos)
                THEN [e EXCEPT !.raised = TRUE]
                ELSE [e EXCEPT !.buffer = CtrlDBuffer(e.buffer, e.cursor_pos)]
           [] k = "ctrl_e" -> [e EXCEPT !.cursor_pos = CtrlEPos(e.buffer)]
           [] k = "backspace" ->
                [e EXCEPT !.buffer = BackspaceBuffer(e.buffer, e.cursor_pos),
                          !.cursor_pos = BackspacePos(e.cursor_pos)]
           [] k = "left" -> [e EXCEPT !.cursor_pos = LeftPos(e.cursor_pos)]
           [] k = "right" ->
                [e EXCEPT !.cursor_pos = RightPos(e.buffer, e.cursor_pos)]
           [] k \in Printable ->
                [e EXCEPT !.buffer = Insert(e.buffer, e.cursor_pos, k),
                          !.cursor_pos = e.cursor_pos + 1]
           [] OTHER -> e

\* the editor as prompt_user opens it: buffer = list(default_value),
\* cursor_pos = len(buffer)
EditOpen(default) ==
    [buffer |-> default, cursor_pos |-> Len(default), raised |-> FALSE]

RECURSIVE EditRun(_, _)
EditRun(e, ks) == IF ks = <<>> THEN e ELSE EditRun(EditStep(e, Head(ks)), Tail(ks))

\* no buffer along the run is longer than MaxBuf or the default
RECURSIVE EditFits(_, _, _)
EditFits(e, ks, cap) ==
    /\ Len(e.buffer) <= cap
    /\ ks # <<>> => EditFits(EditStep(e, Head(ks)), Tail(ks), cap)

\* prompt_user(stdscr, prompt, default_value) for the keys ks followed by the
\* terminating key term ("enter" or "esc"): what it returns, or that it raised
PromptUser(default, ks, term) ==
    LET e == EditRun(EditOpen(default), ks)
    IN IF e.raised THEN [raised |-> TRUE, value |-> None]
       ELSE [raised |-> FALSE,
             value |-> IF term = "enter" THEN EnterValue(e.buffer) ELSE None]

\* -------------------------------------------- prompt_user, one key at a time
EditorKey(k) ==
    /\ pc = "Editing"
    /\ key' = k
    /\ UNCHANGED listVars

\* Enter
EdEnter ==
    /\ EditorKey("enter")
    /\ value' = EnterValue(buffer)
    /\ pc' = "Returned"
    /\ UNCHANGED <<buffer, cursor_pos, raised>>

\* Ctrl-A
EdCtrlA ==
    /\ EditorKey("ctrl_a")
    /\ cursor_pos' = 0
    /\ UNCHANGED <<buffer, value, pc, raised>>

\* Ctrl-D
EdCtrlD ==
    /\ EditorKey("ctrl_d")
    /\ IF CtrlDRaises(buffer, cursor_pos)
       THEN pc' = "Raised" /\ raised' = Some("IndexError") /\ UNCHANGED buffer
       ELSE /\ pc' = pc /\ buffer' = CtrlDBuffer(buffer, cursor_pos)
            /\ UNCHANGED raised
    /\ UNCHANGED <<cursor_pos, value>>

\* Ctrl-E
EdCtrlE ==
    /\ EditorKey("ctrl_e")
    /\ cursor_pos' = CtrlEPos(buffer)
    /\ UNCHANGED <<buffer, value, pc, raised>>

\* Esc, Ctrl-C, Ctrl-G
EdEsc ==
    /\ EditorKey("esc")
    /\ value' = None
    /\ pc' = "Returned"
    /\ UNCHANGED <<buffer, cursor_pos, raised>>

\* Backspace
EdBackspace ==
    /\ EditorKey("backspace")
    /\ buffer' = BackspaceBuffer(buffer, cursor_pos)
    /\ cursor_pos' = BackspacePos(cursor_pos)
    /\ UNCHANGED <<value, pc, raised>>

\* Left / Ctrl-B
EdLeft ==
    /\ EditorKey("left")
    /\ cursor_pos' = LeftPos(cursor_pos)
    /\ UNCHANGED <<buffer, value, pc, raised>>

\* Right / Ctrl-F
EdRight ==
    /\ EditorKey("right")
    /\ cursor_pos' = RightPos(buffer, cursor_pos)
    /\ UNCHANGED <<buffer, value, pc, raised>>

\* a printable character
EdInsert ==
    \E c \in Printable :
        /\ Len(buffer) < MaxBuf
        /\ EditorKey(c)
        /\ buffer' = Insert(buffer, cursor_pos, c)
        /\ cursor_pos' = cursor_pos + 1
        /\ UNCHANGED <<value, pc, raised>>

\* any other key is ignored
EdOther ==
    /\ EditorKey("other")
    /\ UNCHANGED <<buffer, cursor_pos, value, pc, raised>>

\* all strings over cs of length at most n
StringsUpTo(cs, n) == UNION {[1..k -> cs] : k \in 0..n}

InitEditor ==
    /\ pc = "Editing"
    /\ key = "none"
    /\ files = <<>>
    /\ current_idx = 0
    /\ first_selection = None
    /\ message = NoMessage
    /\ old = Snapshot
    /\ argv = <<>>
    /\ buffer \in StringsUpTo(Printable, MaxDefault) \cup {<<"^">>}
    /\ cursor_pos = Len(buffer)
    /\ value = None
    /\ pattern = None
    /\ renames = <<>>
    /\ raised = None

NextEditor ==
    \/ EdEnter \/ EdCtrlA \/ EdCtrlD \/ EdCtrlE \/ EdEsc
    \/ EdBackspace \/ EdLeft \/ EdRight \/ EdInsert \/ EdOther

SpecEditor == InitEditor /\ [][NextEditor]_vars


\* ------------------------------------------------------ the rename engine
\* the keys typed into a prompt of the session before Enter or Esc
SessionKeys == EditKeys \ {" "}
KeySeqs == StringsUpTo(SessionKeys, MaxEdits)
Terminators == {"enter", "esc"}
\* the editing stays within the modelled buffer length
PromptFits(default, ks) ==
    EditFits(EditOpen(default), ks, Max(MaxBuf, Len(default)))
\* what prompt_user can return, or that it can raise, for a default value
PromptResults(default) ==
    {PromptUser(default, ks, term) :
        ks \in {k \in KeySeqs : PromptFits(default, k)}, term \in Terminators}

\* one os.rename call and whether it succeeded
Call(src, dst, ok) == [src |-> src, dst |-> dst, ok |-> ok]
\* os.rename(src, dst) can fail for any pair of names and can succeed unless
\* dst is the empty path; renaming onto an existing file succeeds (POSIX)
RenameOutcomes(src, dst) == IF dst = <<>> THEN {FALSE} ELSE {TRUE, FALSE}

IsPrefix(p, s) == Len(p) <= Len(s) /\ SubSeq(s, 1, Len(p)) = p
Drop(s, n) == SubSeq(s, n + 1, Len(s))

\* re.sub(lit, '', v) for a non-empty literal lit: every non-overlapping
\* occurrence removed, scanning from the left
RECURSIVE RemoveAll(_, _)
RemoveAll(lit, v) ==
    IF v = <<>> THEN <<>>
    ELSE IF IsPrefix(lit, v) THEN RemoveAll(lit, Drop(v, Len(lit)))
    ELSE <<Head(v)>> \o RemoveAll(lit, Tail(v))

\* re.sub(p, '', v) for a pattern p of literal characters and '^': a '^'
\* after a literal can never match, a pattern without literals matches only
\* the empty string, a '^' in front anchors the literal at the start
ReSub(p, v) ==
    LET lit == SelectSeq(p, LAMBDA c : c # "^")
        hasCaret == \E i \in DOMAIN p : p[i] = "^"
        caretAfterLit ==
            \E i, j \in DOMAIN p : i < j /\ p[i] # "^" /\ p[j] = "^"
    IN IF caretAfterLit \/ lit = <<>> THEN v
       ELSE IF hasCaret
            THEN (IF IsPrefix(lit, v) THEN Drop(v, Len(lit)) ELSE v)
            ELSE RemoveAll(lit, v)

\* the S loop over files[from..]: the renames made and the list after them
\* when the (failAt)-th rename raises (failAt = 0: none raises)
RECURSIVE StripLoop(_, _, _, _)
StripLoop(p, fs, i, failAt) ==
    IF i > Len(fs) THEN [files |-> fs, calls |-> <<>>, raised |-> FALSE]
    ELSE LET new_name == ReSub(p, fs[i])
         IN IF new_name = fs[i] THEN StripLoop(p, fs, i + 1, failAt)
            ELSE IF failAt = 1
                 THEN [files |-> fs,
                       calls |-> <<Call(fs[i], new_name, FALSE)>>,
                       raised |-> TRUE]
                 ELSE LET rest == StripLoop(p, [fs EXCEPT ![i] = new_name],
                                            i + 1,
                                            IF failAt = 0 THEN 0 ELSE failAt - 1)
                      IN [rest EXCEPT !.calls =
                              <<Call(fs[i], new_name, TRUE)>> \o rest.calls]

\* decimal digits
DigitChars == <<"0", "1", "2", "3", "4", "5", "6", "7", "8", "9">>
IsDigit(c) == \E d \in 1..10 : DigitChars[d] = c
DigitVal(c) == (CHOOSE d \in 1..10 : DigitChars[d] = c) - 1
RECURSIVE Digits(_)
Digits(n) ==
    IF n < 10 THEN <<DigitChars[n + 1]>>
    ELSE Digits(n \div 10) \o <<DigitChars[(n % 10) + 1]>>
\* the number a string of decimal digits denotes (the empty string: 0)
RECURSIVE NumberOf(_)
NumberOf(ds) ==
    IF ds = <<>> THEN 0
    ELSE 10 * NumberOf(SubSeq(ds, 1, Len(ds) - 1)) + DigitVal(ds[Len(ds)])
RECURSIVE Pow10(_)
Pow10(k) == IF k = 0 THEN 1 ELSE 10 * Pow10(k - 1)

\* math.ceil(math.log(n, 10)) for n >= 1
RECURSIVE CeilLog10From(_, _)
CeilLog10From(n, k) == IF Pow10(k) >= n THEN k ELSE CeilLog10From(n, k + 1)
CeilLog10(n) == CeilLog10From(n, 0)

\* f'%0{math.ceil(math.log(len(files), 10))}d'
DefaultPattern(n) == <<"%", "0">> \o Digits(CeilLog10(n)) \o <<"d">>

\* s right-justified in a field of width w, padded with c
RJust(s, w, c) == Rep(c, Max(0, w - Len(s))) \o s

\* pat % n for an integer n and a format with at most one '%': flags '0' and
\* ' ', a decimal width and the conversions d and a; anything else raises
Format(pat, n) ==
    IF \A i \in DOMAIN pat : pat[i] # "%" THEN [raised |-> TRUE, text |-> <<>>]
    ELSE
    LET at == CHOOSE i \in DOMAIN pat : pat[i] = "%"
        rest == Drop(pat, at)
        nflags == CHOOSE j \in 0..Len(rest) :
                    /\ \A k \in 1..j : rest[k] \in {"0", " "}
                    /\ j < Len(rest) => rest[j + 1] \notin {"0", " "}
        zero == \E k \in 1..nflags : rest[k] = "0"
        space == \E k \in 1..nflags : rest[k] = " "
        afterFlags == Drop(rest, nflags)
        nwidth == CHOOSE j \in 0..Len(afterFlags) :
                    /\ \A k \in 1..j : IsDigit(afterFlags[k])
                    /\ j < Len(afterFlags) => ~IsDigit(afterFlags[j + 1])
        width == NumberOf(SubSeq(afterFlags, 1, nwidth))
        tail == Drop(afterFlags, nwidth)
        sign == IF space THEN <<" ">> ELSE <<>>
    IN IF tail = <<>> \/ Head(tail) \notin {"d", "a"}
       THEN [raised |-> TRUE, text |-> <<>>]
       ELSE [raised |-> FALSE,
             text |-> SubSeq(pat, 1, at - 1)
                      \o (IF Head(tail) = "a" THEN RJust(Digits(n), width, " ")
                          ELSE IF zero
                               THEN sign \o RJust(Digits(n), width - Len(sign), "0")
                               ELSE RJust(sign \o Digits(n), width, " "))
                      \o Tail(tail)]

\* the enumerate loop of the entry point over fs[i..]: new_name =
\* f"{pattern%(i+1)} {f}"; os.rename(f, new_name), the (failAt)-th one raising
RECURSIVE EnumerateLoop(_, _, _, _)
EnumerateLoop(pat, fs, i, failAt) ==
    IF i > Len(fs) THEN [calls |-> <<>>, raised |-> FALSE]
    ELSE LET f == Format(pat, i)
             new_name == f.text \o <<" ">> \o fs[i]
         IN IF f.raised THEN [calls |-> <<>>, raised |-> TRUE]
            ELSE IF failAt = 1
                 THEN [calls |-> <<Call(fs[i], new_name, FALSE)>>,
                       raised |-> TRUE]
                 ELSE LET rest == EnumerateLoop(pat, fs, i + 1,
                                     IF failAt = 0 THEN 0 ELSE failAt - 1)
                      IN [rest EXCEPT !.calls =
                              <<Call(fs[i], new_name, TRUE)>> \o rest.calls]


\* ------------------------------- the default pattern and the numbers it gives
\* the list <<a, aa, ...>> of n names
NameList(n) == [k \in 1..n |-> NameOf(k)]

\* 'x' on a list of any length up to MaxCount: the default pattern, accepted
\* as it is offered
PatternDefault ==
    /\ pc = "PatternStart"
    /\ pattern' = Some(DefaultPattern(Len(files)))
    /\ pc' = "PatternFormat"
    /\ UNCHANGED <<files, current_idx, first_selection, message, key,
                   old, argv, buffer, cursor_pos, value, renames, raised>>

\* one turn of the enumerate loop of the entry point, os.rename succeeding
PatternFormat ==
    /\ pc = "PatternFormat"
    /\ Len(renames) < Len(files)
    /\ LET i == Len(renames) + 1
           f == files[i]
           new_name == Format(Val(pattern), i).text \o <<" ">> \o f
       IN renames' = Append(renames, Call(f, new_name, TRUE))
    /\ UNCHANGED <<files, current_idx, first_selection, message, pc, key,
                   old, argv, buffer, cursor_pos, value, pattern, raised>>

InitPattern ==
    /\ \E n \in 1..MaxCount : files = NameList(n)
    /\ argv = files
    /\ current_idx = 0
    /\ first_selection = None
    /\ message = NoMessage
    /\ pc = "PatternStart"
    /\ key = "x"
    /\ old = Snapshot
    /\ buffer = <<>>
    /\ cursor_pos = 0
    /\ value = None
    /\ pattern = None
    /\ renames = <<>>
    /\ raised = None

NextPattern == PatternDefault \/ PatternFormat

SpecPattern == InitPattern /\ [][NextPattern]_vars

\* ---------------------------------------------- main loop: rename handlers
\* a handler that opens a prompt: the loop blocks in prompt_user
OpenPrompt(k, at) ==
    /\ Dispatch(k)
    /\ pc' = at
    /\ message' = NoMessage
    /\ renames' = <<>>
    /\ UNCHANGED <<files, current_idx, first_selection, pattern>>

\* 'r', up to the prompt
PressRename == OpenPrompt("r", "PromptRename")

\* mutant: the entry replaced before the rename is known to have succeeded
FilesAfterRenameEager(fs, idx, new_name, ok) == [fs EXCEPT ![idx + 1] = new_name]

\* files after os.rename(old_name, new_name) returned (ok) or raised, the
\* exception being caught: files[current_idx] = new_name follows the call
\* inside the try block
FilesAfterRename(fs, idx, new_name, ok) ==
    IF ok THEN [fs EXCEPT ![idx + 1] = new_name] ELSE fs

\* 'r', from the return of prompt_user on
FinishRename ==
    /\ pc = "PromptRename"
    /\ \E r \in PromptResults(At(files, current_idx)) :
         LET old_name == At(files, current_idx)
             new_name == r.value
         IN /\ value' = r.value
            /\ IF r.raised
               THEN /\ pc' = "Raised" /\ raised' = Some("IndexError")
                    /\ UNCHANGED <<files, message, renames>>
               ELSE /\ pc' = "Running"
                    /\ UNCHANGED raised
                    /\ IF IsSome(new_name) /\ Val(new_name) # old_name
                       THEN \E ok \in RenameOutcomes(old_name, Val(new_name)) :
                              /\ renames' = <<Call(old_name, Val(new_name), ok)>>
                              /\ files' = FilesAfterRename(files, current_idx,
                                                           Val(new_name), ok)
                              /\ message' = IF ok
                                            THEN RenamedMessage(old_name,
                                                                Val(new_name))
                                            ELSE ErrorMessage
                       ELSE UNCHANGED <<files, message, renames>>
    /\ UNCHANGED <<current_idx, first_selection, key, old, argv,
                   buffer, cursor_pos, pattern>>

\* 'S', up to the prompt
PressStrip == OpenPrompt("S", "PromptStrip")

\* 'S', from the return of prompt_user on; re.sub raises TypeError for the
\* pattern None, and os.rename is not guarded here
FinishStrip ==
    /\ pc = "PromptStrip"
    /\ \E r \in PromptResults(<<"^">>) :
            /\ value' = r.value
            /\ IF r.raised \/ r.value = None
               THEN /\ pc' = "Raised"
                    /\ raised' = Some(IF r.raised THEN "IndexError"
                                      ELSE "TypeError")
                    /\ UNCHANGED <<files, message, renames>>
               ELSE \E failAt \in 0..Len(files) :
                      LET res == StripLoop(Val(r.value), files, 1, failAt)
                      IN /\ failAt > 0 => res.raised
                         /\ \A c \in DOMAIN res.calls :
                              res.calls[c].ok \in
                                RenameOutcomes(res.calls[c].src, res.calls[c].dst)
                         /\ files' = res.files
                         /\ renames' = res.calls
                         /\ IF res.raised
                            THEN /\ pc' = "Raised"
                                 /\ raised' = Some("OSError")
                                 /\ UNCHANGED message
                            ELSE /\ pc' = "Running"
                                 /\ message' = CountMessage(Len(res.calls))
                                 /\ UNCHANGED raised
    /\ UNCHANGED <<current_idx, first_selection, key, old, argv,
                   buffer, cursor_pos, pattern>>

\* 'x' / 'X', up to the prompt
PressEnumerate == OpenPrompt("x", "PromptPrefix")

\* mutant: a cancelled prompt answered with the default pattern
ReturnedPatternDefault(default, v) == IF v = None THEN Some(default) ELSE v

\* pattern = prompt_user(stdscr, "Rename prefix: ", pattern); return pattern
ReturnedPattern(default, v) == v

\* 'x' / 'X', from the return of prompt_user on: main returns the pattern
FinishEnumerate ==
    /\ pc = "PromptPrefix"
    /\ \E r \in PromptResults(DefaultPattern(Len(files))) :
            /\ value' = r.value
            /\ IF r.raised
               THEN /\ pc' = "Raised" /\ raised' = Some("IndexError")
                    /\ UNCHANGED pattern
               ELSE /\ pc' = "Exiting"
                    /\ pattern' = ReturnedPattern(DefaultPattern(Len(files)),
                                                  r.value)
                    /\ UNCHANGED raised
    /\ UNCHANGED <<files, current_idx, first_selection, message, key,
                   old, argv, buffer, cursor_pos, renames>>

\* 'q' / 'Q': main returns None
Quit ==
    /\ Dispatch("q")
    /\ pc' = "Exiting"
    /\ pattern' = None
    /\ message' = NoMessage
    /\ renames' = <<>>
    /\ UNCHANGED <<files, current_idx, first_selection>>

\* ------------------------------------------------------------ entry point
\* files = sys.argv[1:]; without files the usage is printed and the program
\* exits with status 1, otherwise curses.wrapper(main, files) runs
Start ==
    /\ pc = "Start"
    /\ pc' = IF files = <<>> THEN "Usage" ELSE "Running"
    /\ UNCHANGED <<files, current_idx, first_selection, message, key,
                   old, argv, buffer, cursor_pos, value, pattern, renames,
                   raised>>

\* after curses.wrapper returned: if pattern is not None, every file is
\* renamed to its number and its name
FinalEnumerate ==
    /\ pc = "Exiting"
    /\ IF pattern = None
       THEN pc' = "Done" /\ renames' = <<>> /\ UNCHANGED raised
       ELSE \E failAt \in 0..Len(files) :
              LET res == EnumerateLoop(Val(pattern), files, 1, failAt)
              IN /\ failAt > 0 => res.raised
                 /\ renames' = res.calls
                 /\ pc' = IF res.raised THEN "Raised" ELSE "Done"
                 /\ raised' = IF ~res.raised THEN raised
                              ELSE IF \E c \in DOMAIN res.calls : ~res.calls[c].ok
                                   THEN Some("OSError")
                                   ELSE Some("FormatError")
    /\ UNCHANGED <<files, current_idx, first_selection, message, key,
                   old, argv, buffer, cursor_pos, value, pattern>>

Init ==
    /\ \E n \in 0..MaxArgs : argv \in DistinctLists(n, MaxArgs)
    /\ files = argv
    /\ current_idx = 0
    /\ first_selection = None
    /\ message = NoMessage
    /\ pc = "Start"
    /\ key = "none"
    /\ old = Snapshot
    /\ buffer = <<>>
    /\ cursor_pos = 0
    /\ value = None
    /\ pattern = None
    /\ renames = <<>>
    /\ raised = None

Next ==
    \/ Start
    \/ MoveUp \/ MoveDown \/ Cancel \/ SwapUp \/ SwapDown \/ Select
    \/ PressRename \/ FinishRename
    \/ PressStrip \/ FinishStrip
    \/ PressEnumerate \/ FinishEnumerate
    \/ Quit
    \/ FinalEnumerate

Spec == Init /\ [][Next]_vars

\* ================================================================ claims
N == Len(files)
Abs(x) == IF x < 0 THEN -x ELSE x
Range(s) == {s[i] : i \in DOMAIN s}
Count(s, x) == Cardinality({i \in DOMAIN s : s[i] = x})
SameMultiset(s, t) ==
    /\ Len(s) = Len(t)
    /\ \A x \in Range(s) \cup Range(t) : Count(s, x) = Count(t, x)
\* s without the entries equal to x, order kept
Without(s, x) == SelectSeq(s, LAMBDA y : y # x)
\* the positions whose content the last key changed
Changed == {i \in 0..(N - 1) : At(files, i) # At(old.files, i)}
SwapKey == key \in {"K", "J"}
\* the last swap-move took the cursor across the list boundary
Wrapped ==
    \/ key = "K" /\ old.idx = 0
    \/ key = "J" /\ old.idx = Len(old.files) - 1

\* C1: across a swap-move that does not wrap, a set anchor still points at
\* the item it pointed at before, wherever the cursor was relative to it.
C1_AnchorKeepsItem ==
    (pc = "Running" /\ SwapKey /\ ~Wrapped /\ IsSome(old.sel)) =>
        /\ IsSome(first_selection)
        /\ At(files, Val(first_selection)) = At(old.files, Val(old.sel))

\* C3 as stated: a swap-move changes at most two positions, and they are
\* adjacent, from any cursor position.
C3_AdjacentAlways ==
    (pc = "Running" /\ SwapKey) =>
        /\ Cardinality(Changed) <= 2
        /\ \A i, j \in Changed : i # j => Abs(i - j) = 1

\* C3 amended: a swap-move changes at most the old and the new cursor
\* position; they are adjacent unless the move wrapped around the list
\* boundary, and then they are the first and the last position.
C3_TwoPositions ==
    (pc = "Running" /\ SwapKey) =>
        /\ Changed \subseteq {old.idx, current_idx}
        /\ \A i, j \in Changed : i # j =>
               \/ Abs(i - j) = 1
               \/ Wrapped /\ {i, j} = {0, N - 1}

C3_Witness ==
    /\ pc = "Running" /\ key = "K" /\ N = 3
    /\ old.idx = 0 /\ current_idx = 2 /\ Changed = {0, 2}

\* C4: moves, swap-moves, select and cancel only permute the list: its
\* multiset of items is the one the session started with.
C4_MultisetKept == SameMultiset(files, argv)

C4_Witness ==
    /\ key = "select" /\ N = 3 /\ files # argv /\ files # old.files
    /\ At(files, 2) = At(argv, 0) /\ At(files, 0) = At(argv, 2)

\* C5: a drop at an index other than the anchor puts the anchor's item at the
\* cursor index, keeps the order of all other items, keeps the cursor and
\* clears the anchor.
C5_DropRelocates ==
    (pc = "Running" /\ key = "select" /\ IsSome(old.sel)
        /\ Val(old.sel) # old.idx) =>
        LET moved == At(old.files, Val(old.sel))
        IN /\ Len(files) = Len(old.files)
           /\ At(files, old.idx) = moved
           /\ Without(files, moved) = Without(old.files, moved)
           /\ current_idx = old.idx
           /\ first_selection = None

C5_Witness ==
    /\ pc = "Running" /\ key = "select" /\ N = 3
    /\ old.sel = Some(0) /\ old.idx = 2
    /\ At(files, 2) = At(old.files, 0)

\* C6: a pick-up immediately followed by a drop leaves the list and the
\* cursor as they were before the pick-up, and the anchor unset.
C6_PickDropSamePlace ==
    [][(pc = "Running" /\ key = "select" /\ old.sel = None
            /\ key' = "select") =>
        (files' = old.files /\ current_idx' = old.idx
            /\ first_selection' = None)]_vars

C6_Witness ==
    /\ pc = "Running" /\ key = "select" /\ old.pick
    /\ IsSome(old.sel) /\ first_selection = None
    /\ N >= 2 /\ current_idx > 0

\* the prompt has been opened (and may have resolved)
InEditor == pc \in {"Editing", "Returned", "Raised"}
OnlySpaces(s) == \A i \in DOMAIN s : s[i] = " "
\* v is s with nothing but spaces cut off at both ends
TrimOf(v, s) ==
    \E i \in 0..Len(s) : \E j \in 0..Len(s) :
        s = Rep(" ", i) \o v \o Rep(" ", j)

\* C9: in every state of the line editor the cursor offset lies between 0
\* and the length of the buffer.
C9_OffsetInBuffer == InEditor => (0 <= cursor_pos /\ cursor_pos <= Len(buffer))

\* C10: a resolved prompt returned either the cancellation signal or a
\* non-empty string without leading or trailing whitespace that is the
\* trimmed buffer at the submit; a submit of an empty or blank buffer and an
\* escape return the cancellation signal.
C10_Resolution ==
    pc = "Returned" =>
        /\ key \in {"enter", "esc"}
        /\ key = "esc" => value = None
        /\ (key = "enter" /\ OnlySpaces(buffer)) => value = None
        /\ (key = "enter" /\ ~OnlySpaces(buffer)) => IsSome(value)
        /\ IsSome(value) =>
               LET v == Val(value)
               IN /\ v # <<>>
                  /\ Head(v) # " " /\ v[Len(v)] # " "
                  /\ TrimOf(v, buffer)

C10_Witness ==
    /\ pc = "Returned" /\ key = "enter" /\ IsSome(value)
    /\ Len(Val(value)) = 1
    /\ Head(buffer) = " " /\ buffer[Len(buffer)] = " "

\* the main loop has been entered and main has not returned an exception
InSession ==
    pc \in {"Running", "PromptRename", "PromptStrip", "PromptPrefix", "Exiting"}
Distinct(s) == \A i, j \in DOMAIN s : i # j => s[i] # s[j]

\* C2: the names in the list stay pairwise distinct in every state of the
\* session, also after a single rename to the name of another entry.
C2_NamesDistinct == InSession => Distinct(files)

\* C7: while the session runs the list is not empty and the cursor is an
\* index of it; without arguments the entry point never enters the loop.
C7_CursorInList ==
    /\ InSession => (N > 0 /\ 0 <= current_idx /\ current_idx < N)
    /\ argv = <<>> => pc \in {"Start", "Usage"}

C7_Witness ==
    /\ pc = "Running" /\ key \in {"up", "K"} /\ N = 2
    /\ old.idx = 0 /\ current_idx = 1

\* C8: the anchor is unset or an index of the list, also after swap-moves at
\* either end of the list and after relocations.
C8_AnchorInList ==
    IsSome(first_selection) =>
        (0 <= Val(first_selection) /\ Val(first_selection) < N)

C8_Witness ==
    /\ pc = "Running" /\ key = "K" /\ N = 2
    /\ old.idx = 0 /\ old.sel = Some(1) /\ first_selection = Some(1)

\* the r handler has run to its end (or was ended by an exception)
AfterRename == key = "r" /\ pc \in {"Running", "Raised"}
\* the name the r handler found under the cursor
OldName == At(old.files, old.idx)
\* the single rename was attempted and os.rename succeeded / failed
RenameSucceeded == Len(renames) = 1 /\ renames[1].ok
RenameFailed == Len(renames) = 1 /\ ~renames[1].ok

\* C11: a single rename changes the list only when the prompt was confirmed
\* with another name and os.rename succeeded, and then exactly the entry at
\* the cursor becomes the new name; after a cancel, an unchanged name or a
\* failed rename the list, the cursor and the anchor are as before, and a
\* failed rename leaves an error message and a running session.
C11_SingleRename ==
    AfterRename =>
        /\ current_idx = old.idx /\ first_selection = old.sel
        /\ Len(renames) <= 1
        /\ (value = None \/ Val(value) = OldName) =>
               (renames = <<>> /\ files = old.files)
        /\ (IsSome(value) /\ Val(value) # OldName) =>
               (Len(renames) = 1 /\ renames[1].src = OldName
                   /\ renames[1].dst = Val(value))
        /\ RenameSucceeded =>
               /\ Len(files) = Len(old.files)
               /\ At(files, old.idx) = Val(value)
               /\ \A i \in 0..(N - 1) :
                      i # old.idx => At(files, i) = At(old.files, i)
        /\ RenameFailed =>
               (files = old.files /\ message = ErrorMessage /\ pc = "Running")

C11_Witness ==
    /\ AfterRename /\ RenameFailed /\ N = 2 /\ old.idx = 1
    /\ IsSome(first_selection) /\ message = ErrorMessage

\* a handler of the main loop issued an os.rename that failed
LoopRenameFailed ==
    /\ key \in {"r", "S"} /\ pc \in {"Running", "Raised"}
    /\ \E c \in DOMAIN renames : ~renames[c].ok

\* C12: a failed os.rename of the r or the S handler is recovered in the
\* loop: the session keeps running, the failed rename changes neither the
\* list nor the cursor nor the anchor, a status message is set, and the
\* rename is not tried again.
C12_FailureRecovered ==
    LoopRenameFailed =>
        /\ pc = "Running"
        /\ raised = None
        /\ message # NoMessage
        /\ current_idx = old.idx /\ first_selection = old.sel
        /\ Cardinality({c \in DOMAIN renames : ~renames[c].ok}) = 1
        /\ \A c \in DOMAIN renames :
               ~renames[c].ok => \E i \in DOMAIN files : files[i] = renames[c].src

\* a prompt of the r, S or x handler returned None (Esc, or Enter on a blank
\* buffer) and the handler has run on from there
PromptCancelled ==
    /\ key \in {"r", "S", "x"}
    /\ pc \in {"Running", "Exiting", "Raised"}
    /\ value = None
    /\ raised # Some("IndexError")

\* C13: cancelling the rename, the strip or the prefix prompt is a silent
\* no-op: no os.rename, list, cursor and anchor unchanged, no message, no
\* exception.
C13_CancelIsNoOp ==
    PromptCancelled =>
        /\ renames = <<>>
        /\ files = old.files
        /\ current_idx = old.idx /\ first_selection = old.sel
        /\ message = NoMessage
        /\ raised = None /\ pc # "Raised"

\* main returned a pattern and the enumerate loop of the entry point has run
FinalEnumerateRan == pc \in {"Done", "Raised"} /\ IsSome(pattern)

\* C14: after an exit with a pattern the entry point has issued one
\* os.rename per entry of the list, in list order, the entry at 1-based
\* position i going to the pattern formatted with i, a space and its name.
C14_EveryItemRenamedOnce ==
    FinalEnumerateRan =>
        /\ Len(renames) = N
        /\ \A i \in 1..N :
               /\ renames[i].src = files[i]
               /\ renames[i].dst =
                      Format(Val(pattern), i).text \o <<" ">> \o files[i]

\* the length of the number put in front of the name by an enumerate rename
PrefixLen(c) == Len(c.dst) - Len(c.src) - 1

\* C15: the default pattern for N items gives every index 1..N the same
\* number of digits, which is at least the number of digits of N (two digits
\* for 10 items).
C15_DefaultWidth ==
    pc = "PatternFormat" =>
        \A c \in DOMAIN renames :
            /\ PrefixLen(renames[c]) = PrefixLen(renames[1])
            /\ PrefixLen(renames[c]) >= Len(Digits(N))

\* C16: move-up takes the cursor from c to (c - 1) mod N and move-down to
\* (c + 1) mod N, wrapping at both ends; the list and the anchor stay as they
\* were.
C16_MoveWraps ==
    /\ key = "up" =>
           /\ current_idx = (IF old.idx = 0 THEN N - 1 ELSE old.idx - 1)
           /\ files = old.files /\ first_selection = old.sel
    /\ key = "down" =>
           /\ current_idx = (IF old.idx = N - 1 THEN 0 ELSE old.idx + 1)
           /\ files = old.files /\ first_selection = old.sel
C16_Witness ==
    /\ key = "down" /\ N = 3 /\ old.idx = 2 /\ current_idx = 0
    /\ IsSome(first_selection)

\* C20: after a swap-move, wrapping or not, the item under the cursor is the
\* item that was under the cursor before it.
C20_CursorFollowsItem ==
    SwapKey => At(files, current_idx) = At(old.files, old.idx)
C20_Witness ==
    /\ key = "K" /\ N = 3 /\ old.idx = 0 /\ current_idx = 2
    /\ files # old.files

\* C17: delete-forward (Ctrl-D) with the offset inside 0..length removes the
\* character at the offset when there is one and leaves the buffer as it is
\* when the offset is at the end (as right after the prompt opens on a
\* non-empty default); the offset stays and the editor keeps running.
C17_DeleteForward ==
    [][(pc = "Editing" /\ key' = "ctrl_d"
            /\ 0 <= cursor_pos /\ cursor_pos <= Len(buffer)) =>
          /\ pc' = "Editing" /\ raised' = None
          /\ cursor_pos' = cursor_pos
          /\ buffer' = (IF cursor_pos < Len(buffer)
                        THEN Pop(buffer, cursor_pos) ELSE buffer)]_vars

PromptActive == pc \in {"PromptRename", "PromptStrip", "PromptPrefix"}

\* C18: a prompt, once resolved (confirmed or cancelled), takes the session
\* back to Running, the confirmed bulk-enumerate prompt going on from there
\* to Exiting with its pattern; and Exiting is entered in no other way than
\* by the quit key pressed in Running.
C18_PromptReturnsToRunning ==
    [][/\ PromptActive =>
              \/ pc' = "Running"
              \/ pc = "PromptPrefix" /\ pc' = "Exiting" /\ IsSome(pattern')
       /\ (pc # "Exiting" /\ pc' = "Exiting") =>
              \/ pc = "Running" /\ key' = "q"
              \/ pc = "PromptPrefix" /\ IsSome(pattern')]_vars

\* C19: while the session is Running or in a prompt there is no pattern and
\* no rename of the final enumerate; on entering Exiting nothing has been
\* renamed yet; the renames of an exit are made in the step out of Exiting
\* and only with a pattern, which a plain quit and a cancelled or empty
\* bulk-enumerate prompt do not give.
C19_FinalRenameOnlyAfterExit ==
    /\ [](/\ (pc = "Running" \/ PromptActive) =>
                 (pattern = None /\ (renames # <<>> => key \in {"r", "S"}))
          /\ pc = "Exiting" => renames = <<>>
          /\ (key \in {"q", "x"} /\ renames # <<>>) =>
                 /\ pc \in {"Done", "Raised"}
                 /\ key = "x" /\ IsSome(value) /\ pattern = value)
    /\ [][(key' \in {"q", "x"} /\ renames' # <<>>) =>
              (pc = "Exiting" /\ IsSome(pattern))]_vars
C19_Witness ==
    /\ pc = "Done" /\ key = "x" /\ IsSome(pattern)
    /\ Len(renames) = 2 /\ files # argv

====
